---- MODULE Spec2Model ----
(***************************************************************************)
(* Model of pydantic_ai's tag scanner (_thinking_part.py) and of its       *)
(* structural XML serializer (format_prompt.py).                           *)
(*                                                                         *)
(* Strings that are scanned are sequences of one-character strings, and    *)
(* indexes are Python's (0-based, half-open slices).                       *)
(***************************************************************************)
EXTENDS Integers, Sequences, FiniteSets, TLC

\* ------------------------------------------------------------------ bounds
\* Longest scanner input, counted in pieces of InputPieces.
MaxPieces == 4

\* Most entries, fields or items of a container handed to the serializer.
MaxWidth == 2

\* ------------------------------------------------- _thinking_part.py: data
START_THINK_TAG == <<"<", "t", "h", "i", "n", "k", ">">>

END_THINK_TAG == <<"<", "/", "t", "h", "i", "n", "k", ">">>

\* content[a:b]
Slice(s, a, b) == SubSeq(s, a + 1, b)

\* content[a:]
SliceFrom(s, a) == SubSeq(s, a + 1, Len(s))

SetMin(S) == CHOOSE m \in S : \A n \in S : m <= n

\* sub occurs in s at index i
OccursAt(s, sub, i) == i >= 0 /\ i + Len(sub) <= Len(s) /\ Slice(s, i, i + Len(sub)) = sub

\* str.find(sub, start): the lowest index >= start where sub occurs, else -1
Find(s, sub, start) ==
    LET hits == {i \in start..(Len(s) - Len(sub)) : OccursAt(s, sub, i)}
    IN  IF hits = {} THEN -1 ELSE SetMin(hits)

TextPart(c) == [part_kind |-> "text", content |-> c]

ThinkingPart(c) == [part_kind |-> "thinking", content |-> c]

\* ---------------------------------------------------------- scanner inputs
InputPieces ==
    { START_THINK_TAG, END_THINK_TAG, <<"x">>, <<"y">>, <<"<">>, <<"/">>,
      <<"t", "h", "i", "n", "k", ">">> }

RECURSIVE Flatten(_)
Flatten(ps) == IF ps = <<>> THEN <<>> ELSE Head(ps) \o Flatten(Tail(ps))

PieceInputs == {Flatten(ps) : ps \in UNION {[1..k -> InputPieces] : k \in 0..MaxPieces}}

\* the inputs the documentation of the scanner works through
ExampleInputs ==
    { <<"x">> \o START_THINK_TAG \o <<"y">>,
      START_THINK_TAG \o <<"x">> \o END_THINK_TAG \o START_THINK_TAG \o <<"y">> \o END_THINK_TAG,
      <<"x">> \o START_THINK_TAG \o <<"y">> \o START_THINK_TAG \o <<"x">> \o END_THINK_TAG \o <<"y">>,
      <<"x">> \o START_THINK_TAG \o END_THINK_TAG \o START_THINK_TAG,
      <<"<">> \o START_THINK_TAG \o <<"y">> \o END_THINK_TAG \o <<"/">> }

ScanInputs == PieceInputs \cup ExampleInputs

\* ====================================================== format_prompt.py
\* Python's None / an optional that is absent, and a present one
None == <<>>

Some(x) == <<x>>

\* format_as_xml's defaults for item_tag and none_str
item_tag == "item"

none_str == "null"

\* the error to_xml and _mapping_to_xml raise, by its message
UnsupportedType == "TypeError: Unsupported type for XML formatting"

UnsupportedKeyType == "TypeError: Unsupported key type for XML formatting"

\* ---------------------------------------------------------- Python values
\* str(n) of an int
Digit(d) ==
    CASE d = 0 -> "0" [] d = 1 -> "1" [] d = 2 -> "2" [] d = 3 -> "3" [] d = 4 -> "4"
      [] d = 5 -> "5" [] d = 6 -> "6" [] d = 7 -> "7" [] d = 8 -> "8" [] d = 9 -> "9"

RECURSIVE NatToStr(_)
NatToStr(n) == IF n < 10 THEN Digit(n) ELSE NatToStr(n \div 10) \o Digit(n % 10)

IntToStr(n) == IF n < 0 THEN "-" \o NatToStr(0 - n) ELSE NatToStr(n)

\* a mapping key: a str, an int, a bool (which is an int) or a float
StrKey(s) == [kt |-> "str", s |-> s, n |-> 0]

IntKey(n) == [kt |-> "int", s |-> "", n |-> n]

BoolKey(b) == [kt |-> "bool", s |-> "", n |-> IF b THEN 1 ELSE 0]

FloatKey(tenths) == [kt |-> "float", s |-> "", n |-> tenths]

\* str(key) of a key that is an int
KeyToStr(key) ==
    IF key.kt = "bool" THEN (IF key.n = 1 THEN "True" ELSE "False") ELSE IntToStr(key.n)

\* A value is what isinstance and is_dataclass say of it (types), its class
\* name, and what each protocol it supports gives: the text of a str, the bytes
\* of a bytes, the number, the date, the fields of a record, the items() of a
\* Mapping, the elements an Iterable yields.
Value(types, cls) ==
    [ types |-> types, cls |-> cls, str |-> "", bytes |-> <<>>, numkind |-> "", num |-> 0,
      ymd |-> <<>>, has_dict |-> TRUE, fields |-> <<>>, entries |-> <<>>, items |-> <<>> ]

NoneV == Value({"NoneType"}, "NoneType")

StrV(s) == [Value({"str", "Iterable"}, "str") EXCEPT !.str = s]

BytesV(bs) == [Value({"bytes", "Iterable"}, "bytes") EXCEPT !.bytes = bs]

BoolV(b) == [Value({"number"}, "bool") EXCEPT !.numkind = "bool", !.num = IF b THEN 1 ELSE 0]

IntV(n) == [Value({"number"}, "int") EXCEPT !.numkind = "int", !.num = n]

\* a float with one decimal digit, held in tenths
FloatV(tenths) == [Value({"number"}, "float") EXCEPT !.numkind = "float", !.num = tenths]

DateV(ymd) == [Value({"date"}, "date") EXCEPT !.ymd = ymd]

\* datetime is a subclass of date
DateTimeV(ymdhms) == [Value({"date"}, "datetime") EXCEPT !.ymd = ymdhms]

\* an object() : no category
ObjectV == Value({}, "object")

Entry(key, value) == [key |-> key, value |-> value]

DictV(entries) == [Value({"Mapping", "Iterable"}, "dict") EXCEPT !.entries = entries]

ListV(items) == [Value({"Iterable"}, "list") EXCEPT !.items = items]

DataclassV(cls, fields) == [Value({"dataclass"}, cls) EXCEPT !.fields = fields]

\* a dataclass with __slots__: it has no __dict__
SlotsDataclassV(cls, fields) ==
    [Value({"dataclass"}, cls) EXCEPT !.fields = fields, !.has_dict = FALSE]

\* BaseModel defines __iter__
BaseModelV(cls, fields) == [Value({"BaseModel", "Iterable"}, cls) EXCEPT !.fields = fields]

\* a dataclass that also implements Mapping, with items() of its own
MappingDataclassV(cls, fields) ==
    [ Value({"dataclass", "Mapping", "Iterable"}, cls) EXCEPT
        !.fields = fields,
        !.entries = <<Entry(StrKey("via_items"), StrV("mapping"))>> ]

\* bytes.decode(errors='ignore'): the bytes that decode, the others dropped
RECURSIVE Decode(_)
Decode(bs) ==
    IF bs = <<>> THEN ""
    ELSE (IF Head(bs).valid THEN Head(bs).ch ELSE "") \o Decode(Tail(bs))

\* str(value) of a bool, an int or a float
NumToStr(value) ==
    CASE value.numkind = "bool" -> (IF value.num = 1 THEN "True" ELSE "False")
      [] value.numkind = "int" -> IntToStr(value.num)
      [] value.numkind = "float" ->
            (IF value.num < 0 THEN "-" ELSE "")
                \o NatToStr((IF value.num < 0 THEN 0 - value.num ELSE value.num) \div 10)
                \o "." \o Digit((IF value.num < 0 THEN 0 - value.num ELSE value.num) % 10)

Pad2(n) == IF n < 10 THEN "0" \o NatToStr(n) ELSE NatToStr(n)

Pad4(n) ==
    IF n < 10 THEN "000" \o NatToStr(n)
    ELSE IF n < 100 THEN "00" \o NatToStr(n)
    ELSE IF n < 1000 THEN "0" \o NatToStr(n)
    ELSE NatToStr(n)

\* date.isoformat() and datetime.isoformat()
IsoFormat(ymd) ==
    Pad4(ymd[1]) \o "-" \o Pad2(ymd[2]) \o "-" \o Pad2(ymd[3])
        \o (IF Len(ymd) > 3
            THEN "T" \o Pad2(ymd[4]) \o ":" \o Pad2(ymd[5]) \o ":" \o Pad2(ymd[6])
            ELSE "")

\* dataclasses.asdict and BaseModel.model_dump(mode='python') turn the records
\* nested in the fields into plain dicts, through lists and dicts; asdict does it
\* for dataclasses only, model_dump for both kinds of record
RECURSIVE DumpValue(_, _), DumpEntries(_, _), DumpItems(_, _)
DumpValue(v, record_types) ==
    IF v.types \cap {"NoneType", "str", "bytes", "number", "date"} # {} THEN v
    ELSE IF v.types \cap record_types # {} THEN DictV(DumpEntries(v.fields, record_types))
    ELSE IF v.cls = "dict" THEN DictV(DumpEntries(v.entries, record_types))
    ELSE IF v.cls = "list" THEN ListV(DumpItems(v.items, record_types))
    ELSE v

DumpEntries(es, record_types) ==
    IF es = <<>> THEN <<>>
    ELSE <<Entry(Head(es).key, DumpValue(Head(es).value, record_types))>>
             \o DumpEntries(Tail(es), record_types)

DumpItems(vs, record_types) ==
    IF vs = <<>> THEN <<>>
    ELSE <<DumpValue(Head(vs), record_types)>> \o DumpItems(Tail(vs), record_types)

asdict(value) == DumpEntries(value.fields, {"dataclass"})

model_dump(value) == DumpEntries(value.fields, {"dataclass", "BaseModel"})

RECURSIVE KeysOf(_)
KeysOf(es) ==
    IF es = <<>> THEN <<>>
    ELSE << (IF Head(es).key.kt = "str" THEN StrV(Head(es).key.s)
             ELSE IF Head(es).key.kt = "float" THEN FloatV(Head(es).key.n)
             ELSE IF Head(es).key.kt = "bool" THEN BoolV(Head(es).key.n = 1)
             ELSE IntV(Head(es).key.n)) >> \o KeysOf(Tail(es))

RECURSIVE FieldPairs(_)
FieldPairs(es) ==
    IF es = <<>> THEN <<>>
    ELSE <<ListV(<<StrV(Head(es).key.s), Head(es).value>>)>> \o FieldPairs(Tail(es))

\* `for item in value`: a Mapping yields its keys, a BaseModel its
\* (name, value) pairs, any other iterable its elements
IterItems(value) ==
    IF "Mapping" \in value.types THEN KeysOf(value.entries)
    ELSE IF "BaseModel" \in value.types THEN FieldPairs(value.fields)
    ELSE value.items

\* ------------------------------------------------------------ ElementTree
Element(tag) == [tag |-> tag, text |-> None, children |-> <<>>, tail |-> None]

\* what a call gives: an element, or the exception it raised
Returned(el) == [raised |-> None, el |-> Some(el)]

Raised(exc) == [raised |-> Some(exc), el |-> None]

\* -------------------------------------------------------------- _ToXml
RECURSIVE to_xml(_, _), mapping_to_xml(_, _), iterable_to_xml(_, _)

\* _mapping_to_xml giving an element that ends up without children a text
mapping_to_xml_EmptyGetsText(element, mapping) ==
    IF mapping = <<>>
    THEN Returned(IF element.children = <<>> THEN [element EXCEPT !.text = Some(none_str)]
                  ELSE element)
    ELSE LET key == Head(mapping).key
             value == Head(mapping).value
         IN  IF key.kt \notin {"int", "bool", "str"} THEN Raised(UnsupportedKeyType)
             ELSE LET child == to_xml(value, Some(IF key.kt = "str" THEN key.s ELSE KeyToStr(key)))
                  IN  IF child.raised # None THEN child
                      ELSE mapping_to_xml([element EXCEPT !.children = Append(@, child.el[1])],
                                          Tail(mapping))

\* _mapping_to_xml passing over an entry whose key it cannot use
mapping_to_xml_SkipsBadKey(element, mapping) ==
    IF mapping = <<>> THEN Returned(element)
    ELSE LET key == Head(mapping).key
             value == Head(mapping).value
         IN  IF key.kt \notin {"int", "bool", "str"} THEN mapping_to_xml(element, Tail(mapping))
             ELSE LET child == to_xml(value, Some(IF key.kt = "str" THEN key.s ELSE KeyToStr(key)))
                  IN  IF child.raised # None THEN child
                      ELSE mapping_to_xml([element EXCEPT !.children = Append(@, child.el[1])],
                                          Tail(mapping))

\* _mapping_to_xml inserting each child in front of the earlier ones
mapping_to_xml_Prepends(element, mapping) ==
    IF mapping = <<>> THEN Returned(element)
    ELSE LET key == Head(mapping).key
             value == Head(mapping).value
         IN  IF key.kt \notin {"int", "bool", "str"} THEN Raised(UnsupportedKeyType)
             ELSE LET child == to_xml(value, Some(IF key.kt = "str" THEN key.s ELSE KeyToStr(key)))
                  IN  IF child.raised # None THEN child
                      ELSE mapping_to_xml([element EXCEPT !.children = <<child.el[1]>> \o @],
                                          Tail(mapping))

\* _ToXml._mapping_to_xml: appends one child per entry to element, in the
\* order of mapping.items(); the first key or value that raises ends the loop
mapping_to_xml(element, mapping) ==
    IF mapping = <<>> THEN Returned(element)
    ELSE LET key == Head(mapping).key
             value == Head(mapping).value
         IN  IF key.kt \notin {"int", "bool", "str"} THEN Raised(UnsupportedKeyType)
             ELSE LET child == to_xml(value, Some(IF key.kt = "str" THEN key.s ELSE KeyToStr(key)))
                  IN  IF child.raised # None THEN child
                      ELSE mapping_to_xml([element EXCEPT !.children = Append(@, child.el[1])],
                                          Tail(mapping))

\* the `for item in value` loop of to_xml
iterable_to_xml(element, items) ==
    IF items = <<>> THEN Returned(element)
    ELSE LET child == to_xml(Head(items), None)
         IN  IF child.raised # None THEN child
             ELSE iterable_to_xml([element EXCEPT !.children = Append(@, child.el[1])],
                                  Tail(items))

\* to_xml testing for Mapping before it tests for the two kinds of record
to_xml_MappingFirst(value, tag) ==
    LET element == Element(IF tag = None THEN item_tag ELSE tag[1])
        record == Element(IF tag = None THEN value.cls ELSE tag[1])
    IN  IF "NoneType" \in value.types THEN Returned([element EXCEPT !.text = Some(none_str)])
        ELSE IF "str" \in value.types THEN Returned([element EXCEPT !.text = Some(value.str)])
        ELSE IF "bytes" \in value.types
            THEN Returned([element EXCEPT !.text = Some(Decode(value.bytes))])
        ELSE IF "number" \in value.types
            THEN Returned([element EXCEPT !.text = Some(NumToStr(value))])
        ELSE IF "date" \in value.types
            THEN Returned([element EXCEPT !.text = Some(IsoFormat(value.ymd))])
        ELSE IF "Mapping" \in value.types THEN mapping_to_xml(element, value.entries)
        ELSE IF "dataclass" \in value.types /\ "type" \notin value.types
            THEN mapping_to_xml(record, IF value.has_dict THEN value.fields ELSE asdict(value))
        ELSE IF "BaseModel" \in value.types THEN mapping_to_xml(record, model_dump(value))
        ELSE IF "Iterable" \in value.types /\ value.types \cap {"str", "bytes"} = {}
            THEN iterable_to_xml(element, IterItems(value))
        ELSE Raised(UnsupportedType)

\* _ToXml.to_xml
to_xml(value, tag) ==
    LET element == Element(IF tag = None THEN item_tag ELSE tag[1])
        record == Element(IF tag = None THEN value.cls ELSE tag[1])
    IN  IF "NoneType" \in value.types THEN Returned([element EXCEPT !.text = Some(none_str)])
        ELSE IF "str" \in value.types THEN Returned([element EXCEPT !.text = Some(value.str)])
        ELSE IF "bytes" \in value.types
            THEN Returned([element EXCEPT !.text = Some(Decode(value.bytes))])
        ELSE IF "number" \in value.types
            THEN Returned([element EXCEPT !.text = Some(NumToStr(value))])
        ELSE IF "date" \in value.types
            THEN Returned([element EXCEPT !.text = Some(IsoFormat(value.ymd))])
        ELSE IF "dataclass" \in value.types /\ "type" \notin value.types
            THEN mapping_to_xml(record, IF value.has_dict THEN value.fields ELSE asdict(value))
        ELSE IF "BaseModel" \in value.types THEN mapping_to_xml(record, model_dump(value))
        ELSE IF "Mapping" \in value.types THEN mapping_to_xml(element, value.entries)
        ELSE IF "Iterable" \in value.types /\ value.types \cap {"str", "bytes"} = {}
            THEN iterable_to_xml(element, IterItems(value))
        ELSE Raised(UnsupportedType)

\* --------------------------------------- ElementTree.indent and tostring
RECURSIVE Repeat(_, _)
Repeat(str, n) == IF n = 0 THEN "" ELSE str \o Repeat(str, n - 1)

\* `not text or not text.strip()`; the texts of the model hold no whitespace
IsBlank(text) == text = None \/ text[1] = ""

RECURSIVE IndentChildren(_, _, _), IndentEach(_, _, _)
\* the children of elem, each indented below and followed by the indentation of
\* its level, the last one by the indentation of its parent
IndentEach(children, level, space) ==
    IF children = <<>> THEN <<>>
    ELSE LET child == IF Len(Head(children).children) > 0
                      THEN IndentChildren(Head(children), level + 1, space)
                      ELSE Head(children)
             own == "\n" \o Repeat(space, level + 1)
             last == "\n" \o Repeat(space, level)
             tail == IF IsBlank(child.tail)
                     THEN (IF Len(children) = 1 THEN Some(last) ELSE Some(own))
                     ELSE child.tail
         IN  <<[child EXCEPT !.tail = tail]>> \o IndentEach(Tail(children), level, space)

IndentChildren(elem, level, space) ==
    [elem EXCEPT !.text = IF IsBlank(elem.text) THEN Some("\n" \o Repeat(space, level + 1))
                          ELSE elem.text,
                 !.children = IndentEach(elem.children, level, space)]

\* ElementTree.indent(tree, space=space)
ElementTree_indent(tree, space) ==
    IF Len(tree.children) = 0 THEN tree ELSE IndentChildren(tree, 0, space)

\* the escaping of text nodes, on the texts of the model that need it
EscapeCdata(text) ==
    CASE text = "a<b" -> "a&lt;b"
      [] text = "R&D" -> "R&amp;D"
      [] OTHER -> text

RECURSIVE ElementTree_tostring(_), SerializeAll(_)
SerializeAll(children) ==
    IF children = <<>> THEN ""
    ELSE ElementTree_tostring(Head(children)) \o SerializeAll(Tail(children))

\* ElementTree.tostring(element, encoding='unicode')
ElementTree_tostring(elem) ==
    "<" \o elem.tag
        \o (IF (elem.text # None /\ elem.text[1] # "") \/ Len(elem.children) > 0
            THEN ">" \o (IF elem.text # None THEN EscapeCdata(elem.text[1]) ELSE "")
                     \o SerializeAll(elem.children) \o "</" \o elem.tag \o ">"
            ELSE " />")
        \o (IF elem.tail # None THEN EscapeCdata(elem.tail[1]) ELSE "")

\* -------------------------------------------------------- format_as_xml
RECURSIVE rootless_xml_elements(_, _)
\* _rootless_xml_elements, given the children of root: each one indented on its
\* own, then serialized
rootless_xml_elements(children, indent_) ==
    IF children = <<>> THEN <<>>
    ELSE << ElementTree_tostring(IF indent_ # None
                                 THEN ElementTree_indent(Head(children), indent_[1])
                                 ELSE Head(children)) >>
             \o rootless_xml_elements(Tail(children), indent_)

\* str.join
RECURSIVE Join(_, _)
Join(sep, strs) ==
    IF strs = <<>> THEN ""
    ELSE IF Len(strs) = 1 THEN Head(strs)
    ELSE Head(strs) \o sep \o Join(sep, Tail(strs))

\* format_as_xml leaving the root out whenever no root_tag is given
format_as_xml_IgnoresText(obj_, root_tag_, indent_) ==
    LET made == to_xml(obj_, root_tag_)
        el_ == made.el[1]
    IN  IF made.raised # None THEN [raised |-> made.raised, out |-> None]
        ELSE IF root_tag_ = None
            THEN [ raised |-> None,
                   out |-> Some(Join(IF indent_ = None THEN "" ELSE "\n",
                                     rootless_xml_elements(el_.children, indent_))) ]
        ELSE [ raised |-> None,
               out |-> Some(ElementTree_tostring(IF indent_ # None
                                                 THEN ElementTree_indent(el_, indent_[1])
                                                 ELSE el_)) ]

\* format_as_xml(obj, root_tag, indent=indent): the string returned, or the
\* exception to_xml raised
format_as_xml(obj_, root_tag_, indent_) ==
    LET made == to_xml(obj_, root_tag_)
        el_ == made.el[1]
    IN  IF made.raised # None THEN [raised |-> made.raised, out |-> None]
        ELSE IF root_tag_ = None /\ el_.text = None
            THEN [ raised |-> None,
                   out |-> Some(Join(IF indent_ = None THEN "" ELSE "\n",
                                     rootless_xml_elements(el_.children, indent_))) ]
        ELSE [ raised |-> None,
               out |-> Some(ElementTree_tostring(IF indent_ # None
                                                 THEN ElementTree_indent(el_, indent_[1])
                                                 ELSE el_)) ]

\* --------------------------------------------------- serializer inputs
Keys == {StrKey("name"), StrKey("height"), IntKey(1), FloatKey(15)}

FieldNames == {StrKey("name"), StrKey("height")}

Point == DataclassV("Point", <<Entry(StrKey("x"), IntV(6))>>)

\* what the containers below hold
Children ==
    { StrV("John"), IntV(6), ObjectV, DictV(<<>>),
      DictV(<<Entry(FloatKey(15), IntV(6))>>),
      ListV(<<Point>>) }

EntrySeqs(keys, values) ==
    UNION {[1..k -> {Entry(key, value) : key \in keys, value \in values}] : k \in 0..MaxWidth}

ItemSeqs(values) == UNION {[1..k -> values] : k \in 0..MaxWidth}

Containers ==
    {DictV(es) : es \in EntrySeqs(Keys, Children)}
        \cup {ListV(vs) : vs \in ItemSeqs(Children)}
        \cup {DataclassV("User", fs) : fs \in EntrySeqs(FieldNames, Children)}
        \cup {BaseModelV("Person", fs) : fs \in EntrySeqs(FieldNames, Children)}
        \cup {MappingDataclassV("Row", fs) : fs \in EntrySeqs(FieldNames, Children)}

\* the docstring's example
DocExample ==
    DictV(<< Entry(StrKey("name"), StrV("John")), Entry(StrKey("height"), IntV(6)),
             Entry(StrKey("weight"), IntV(200)) >>)

Scalars ==
    { NoneV, StrV("John"), StrV(""), StrV("a<b"),
      BytesV(<< [valid |-> TRUE, ch |-> "Jo"], [valid |-> FALSE, ch |-> "\\xff"],
                [valid |-> TRUE, ch |-> "hn"] >>),
      BoolV(TRUE), BoolV(FALSE), IntV(6), IntV(0 - 12), IntV(200), FloatV(15),
      DateV(<<2024, 1, 2>>), DateTimeV(<<2024, 1, 2, 3, 4, 5>>),
      \* a dataclass that subclasses str, an IntEnum-like int that is iterable
      [StrV("John") EXCEPT !.types = @ \cup {"dataclass"}, !.cls = "Name",
                           !.fields = <<Entry(StrKey("first"), StrV("J"))>>],
      [IntV(6) EXCEPT !.types = @ \cup {"Iterable"}, !.cls = "Flags", !.items = <<IntV(2), IntV(4)>>],
      \* object(), and a dataclass class rather than an instance of it
      ObjectV, Value({"dataclass", "type"}, "type") }

Nestings ==
    { DocExample,
      ListV(<<IntV(1), IntV(2), IntV(3)>>),
      ListV(<<NoneV, ListV(<<>>)>>),
      DictV(<<Entry(BoolKey(TRUE), StrV("John")), Entry(IntKey(0 - 12), IntV(6))>>),
      DictV(<<Entry(IntKey(1), StrV("a")), Entry(StrKey("1"), StrV("b"))>>),
      DictV(<< Entry(StrKey("name"), StrV("John")),
               Entry(StrKey("height"), ListV(<<IntV(6), DictV(<<Entry(FloatKey(15), IntV(6))>>)>>)) >>),
      DictV(<< Entry(StrKey("name"), DictV(<<Entry(StrKey("height"), ListV(<<IntV(6), ObjectV>>))>>)) >>),
      SlotsDataclassV("Team", <<Entry(StrKey("members"), ListV(<<Point>>))>>),
      DataclassV("Team", <<Entry(StrKey("members"), ListV(<<Point>>))>>),
      BaseModelV("Team", <<Entry(StrKey("members"),
                                 ListV(<<BaseModelV("Person", <<Entry(StrKey("name"), StrV("John"))>>)>>))>>) }

XmlInputs == Scalars \cup Nestings \cup Containers

RootTags == {None, Some("user")}

Indents == {None, Some("  ")}

\* ===================================================== providers/groq.py
AssertionError == "AssertionError"

UserError == "UserError"

\* GroqProvider.base_url: os.environ.get('GROQ_BASE_URL', 'https://api.groq.com')
base_url(environ_) ==
    IF environ_.GROQ_BASE_URL = None THEN "https://api.groq.com" ELSE environ_.GROQ_BASE_URL[1]

\* AsyncGroq(base_url=..., api_key=..., http_client=...): a new client
AsyncGroq(base_url_, api_key_, http_client_) ==
    [made_by |-> "GroqProvider", base_url |-> base_url_, api_key |-> api_key_,
     http_client |-> http_client_]

\* a client the caller made and hands in as groq_client
CallersClient ==
    [made_by |-> "caller", base_url |-> "https://groq.example", api_key |-> "callers-key",
     http_client |-> "callers-http-client"]

\* cached_async_http_client(provider=...): one shared client per provider, made
\* at the first call and kept in the cache
cached_async_http_client(provider) == "shared-http-client-" \o provider

\* `not api_key`
Falsy(optional_str) == optional_str = None \/ optional_str[1] = ""

\* GroqProvider.__init__ falling back to the environment only when api_key is None
GroqProvider_init_NoneOnly(api_key_, groq_client_, http_client_, environ_, cache_) ==
    IF groq_client_ # None
    THEN IF http_client_ # None \/ api_key_ # None
         THEN [raised |-> Some(AssertionError), client |-> None, cache |-> cache_]
         ELSE [raised |-> None, client |-> groq_client_, cache |-> cache_]
    ELSE LET key == IF api_key_ = None THEN environ_.GROQ_API_KEY ELSE api_key_
         IN  IF Falsy(key)
             THEN [raised |-> Some(UserError), client |-> None, cache |-> cache_]
             ELSE IF http_client_ # None
             THEN [ raised |-> None,
                    client |-> Some(AsyncGroq(base_url(environ_), key[1], http_client_[1])),
                    cache |-> cache_ ]
             ELSE [ raised |-> None,
                    client |-> Some(AsyncGroq(base_url(environ_), key[1],
                                              cached_async_http_client("groq"))),
                    cache |-> cache_ \cup {"groq"} ]

\* GroqProvider.__init__(api_key=, groq_client=, http_client=), with the
\* environment and the cache of shared HTTP clients it runs in: the exception
\* raised or self._client, and the cache afterwards
GroqProvider_init(api_key_, groq_client_, http_client_, environ_, cache_) ==
    IF groq_client_ # None
    THEN IF http_client_ # None \/ api_key_ # None
         THEN [raised |-> Some(AssertionError), client |-> None, cache |-> cache_]
         ELSE [raised |-> None, client |-> groq_client_, cache |-> cache_]
    ELSE LET key == IF Falsy(api_key_) THEN environ_.GROQ_API_KEY ELSE api_key_
         IN  IF Falsy(key)
             THEN [raised |-> Some(UserError), client |-> None, cache |-> cache_]
             ELSE IF http_client_ # None
             THEN [ raised |-> None,
                    client |-> Some(AsyncGroq(base_url(environ_), key[1], http_client_[1])),
                    cache |-> cache_ ]
             ELSE [ raised |-> None,
                    client |-> Some(AsyncGroq(base_url(environ_), key[1],
                                              cached_async_http_client("groq"))),
                    cache |-> cache_ \cup {"groq"} ]

\* ------------------------------------------------- GroqProvider's inputs
ApiKeys == {None, Some(""), Some("arg-key")}

GroqClients == {None, Some(CallersClient)}

HttpClients == {None, Some("my-http-client")}

Environs ==
    [ GROQ_API_KEY : {None, Some(""), Some("env-key")},
      GROQ_BASE_URL : {None, Some("http://localhost:8080")} ]

\* ==================================================== profiles/google.py
\* the longest prefixItems of the schemas handed to transform
MaxPrefix == 2

\* ------------------------------------------------------------ JSON values
\* None, an int, a bool, a str, a list, or a dict held as its set of items
JValue(jt) == [jt |-> jt, n |-> 0, s |-> "", d |-> {}, l |-> <<>>]

JNull == JValue("null")

JInt(n) == [JValue("int") EXCEPT !.n = n]

JBool(b) == [JValue("bool") EXCEPT !.n = IF b THEN 1 ELSE 0]

JStr(str) == [JValue("str") EXCEPT !.s = str]

JList(l) == [JValue("list") EXCEPT !.l = l]

Item(key, value) == [key |-> key, value |-> value]

JDict(items) == [JValue("dict") EXCEPT !.d = items]

DictKeys(schema) == {e.key : e \in schema.d}

\* schema[key]
DictGet(schema, key) == (CHOOSE e \in schema.d : e.key = key).value

\* schema.pop(key, None), for the dict it leaves
DictWithout(schema, key) == [schema EXCEPT !.d = {e \in @ : e.key # key}]

\* schema[key] = value
DictWith(schema, key, value) ==
    [schema EXCEPT !.d = {e \in @ : e.key # key} \cup {Item(key, value)}]

\* schema.get(key): None when the key is missing
DictGetOrNone(schema, key) == IF key \in DictKeys(schema) THEN DictGet(schema, key) ELSE JNull

\* bool(value)
Truthy(v) ==
    CASE v.jt = "null" -> FALSE
      [] v.jt \in {"int", "bool"} -> v.n # 0
      [] v.jt = "str" -> v.s # ""
      [] v.jt = "list" -> v.l # <<>>
      [] v.jt = "dict" -> v.d # {}

RECURSIVE PyEq(_, _)
\* a == b: a bool is the int 1 or 0, a dict is equal whatever the order of its keys
PyEq(a, b) ==
    IF a.jt \in {"int", "bool"} /\ b.jt \in {"int", "bool"} THEN a.n = b.n
    ELSE IF a.jt # b.jt THEN FALSE
    ELSE CASE a.jt = "null" -> TRUE
           [] a.jt = "str" -> a.s = b.s
           [] a.jt = "list" ->
                 /\ Len(a.l) = Len(b.l)
                 /\ \A k \in 1..Len(a.l) : PyEq(a.l[k], b.l[k])
           [] a.jt = "dict" ->
                 /\ DictKeys(a) = DictKeys(b)
                 /\ \A key \in DictKeys(a) : PyEq(DictGet(a, key), DictGet(b, key))

\* str(val) of an enum value
JToStr(v) ==
    CASE v.jt = "null" -> "None"
      [] v.jt = "bool" -> (IF v.n = 1 THEN "True" ELSE "False")
      [] v.jt = "int" -> IntToStr(v.n)
      [] v.jt = "str" -> v.s

RECURSIVE StrEach(_)
\* [str(val) for val in enum]
StrEach(vals) ==
    IF vals = <<>> THEN <<>> ELSE <<JStr(JToStr(Head(vals)))>> \o StrEach(Tail(vals))

\* -------------------------------------------------- hash and _item_hash
\* the strs of the model's schemas; hash(str) is taken to be one-to-one and
\* away from the ints of the model
ModelStrs == <<"integer", "string", "array", "date", "a", "#/$defs/Node">>

\* hash(value) of a hashable value: an int is its own hash, but hash(-1) is -2;
\* hash(True) is 1 and hash(False) is 0
PyHash(v) ==
    CASE v.jt = "null" -> 999
      [] v.jt = "bool" -> v.n
      [] v.jt = "int" -> (IF v.n = 0 - 1 THEN 0 - 2 ELSE v.n)
      [] v.jt = "str" -> 1000 + (CHOOSE k \in 1..Len(ModelStrs) : ModelStrs[k] = v.s)

\* what _item_hash returns: an int, or a tuple of ints, strs and tuples
HInt(n) == [hk |-> "int", n |-> n, s |-> "", t |-> <<>>]

HStr(str) == [hk |-> "str", n |-> 0, s |-> str, t |-> <<>>]

HTuple(t) == [hk |-> "tuple", n |-> 0, s |-> "", t |-> t]

\* the keys of the model's schemas as sorted() orders them
KeyOrder ==
    << "$ref", "$schema", "additionalProperties", "anyOf", "const", "description",
       "discriminator", "enum", "examples", "exclusiveMaximum", "exclusiveMinimum",
       "format", "items", "maxItems", "minItems", "minimum", "oneOf", "prefixItems",
       "properties", "title", "type" >>

RECURSIVE item_hash(_), SortedPairHashes(_, _), EachItemHash(_)
\* tuple(sorted((k, _item_hash(v)) for k, v in item.items())), from the k-th key on
SortedPairHashes(item, k) ==
    IF k > Len(KeyOrder) THEN <<>>
    ELSE (IF KeyOrder[k] \in DictKeys(item)
          THEN <<HTuple(<<HStr(KeyOrder[k]), item_hash(DictGet(item, KeyOrder[k]))>>)>>
          ELSE <<>>) \o SortedPairHashes(item, k + 1)

\* tuple(_item_hash(i) for i in item)
EachItemHash(l) ==
    IF l = <<>> THEN <<>> ELSE <<item_hash(Head(l))>> \o EachItemHash(Tail(l))

\* GoogleJsonSchemaTransformer._item_hash
item_hash(item) ==
    IF item.jt = "dict" THEN HTuple(SortedPairHashes(item, 1))
    ELSE IF item.jt = "list" THEN HTuple(EachItemHash(item.l))
    ELSE HInt(PyHash(item))

RECURSIVE unique_items_loop(_, _, _)
\* the `for item in prefix_items` loop: unique_items at its end
unique_items_loop(prefix_items, unique_items, seen) ==
    IF prefix_items = <<>> THEN unique_items
    ELSE LET item == Head(prefix_items)
             key == item_hash(item)
         IN  IF key \notin seen
             THEN unique_items_loop(Tail(prefix_items), Append(unique_items, item),
                                    seen \cup {key})
             ELSE unique_items_loop(Tail(prefix_items), unique_items, seen)

\* schema.setdefault(key, value)
SetDefault(schema, key, value) ==
    IF key \in DictKeys(schema) THEN schema ELSE DictWith(schema, key, value)

\* the `if 'prefixItems' in schema` block of transform
convert_prefix_items(schema) ==
    IF "prefixItems" \notin DictKeys(schema) THEN schema
    ELSE LET prefix_items == DictGet(schema, "prefixItems").l
             popped == DictWithout(schema, "prefixItems")
             items == DictGetOrNone(popped, "items")
             unique_items ==
                 IF items.jt # "null"
                 THEN unique_items_loop(prefix_items, <<items>>, {item_hash(items)})
                 ELSE unique_items_loop(prefix_items, <<>>, {})
             with_items ==
                 IF Len(unique_items) > 1
                 THEN DictWith(popped, "items", JDict({Item("anyOf", JList(unique_items))}))
                 ELSE IF Len(unique_items) = 1 THEN DictWith(popped, "items", unique_items[1])
                 ELSE popped
             with_min == SetDefault(with_items, "minItems", JInt(Len(prefix_items)))
         IN  IF items.jt = "null"
             THEN SetDefault(with_min, "maxItems", JInt(Len(prefix_items)))
             ELSE with_min

RECURSIVE PopAll(_, _)
PopAll(schema, keys) ==
    IF keys = <<>> THEN schema ELSE PopAll(DictWithout(schema, Head(keys)), Tail(keys))

\* GoogleJsonSchemaTransformer.transform(schema): the schema as it is left (it
\* is changed in place), whether the additionalProperties warning was given,
\* and the exception raised, if any
transform(schema) ==
    LET warned == Truthy(DictGetOrNone(schema, "additionalProperties"))
        s1 == PopAll(schema, <<"additionalProperties", "title", "$schema">>)
        const == DictGetOrNone(s1, "const")
        s2 == IF const.jt # "null"
              THEN DictWith(DictWithout(s1, "const"), "enum", JList(<<const>>))
              ELSE DictWithout(s1, "const")
        s3 == PopAll(s2, <<"discriminator", "examples", "exclusiveMaximum", "exclusiveMinimum">>)
        enum == DictGetOrNone(s3, "enum")
        s4 == IF Truthy(enum)
              THEN DictWith(DictWith(s3, "type", JStr("string")), "enum", JList(StrEach(enum.l)))
              ELSE s3
        type_ == DictGetOrNone(s4, "type")
        s5 == IF "oneOf" \in DictKeys(s4) /\ "type" \notin DictKeys(s4)
              THEN DictWith(DictWithout(s4, "oneOf"), "anyOf", DictGet(s4, "oneOf"))
              ELSE s4
        fmt == DictGetOrNone(s5, "format")
        description == DictGetOrNone(s5, "description")
        s6 == IF PyEq(type_, JStr("string"))
              THEN (IF Truthy(fmt)
                    THEN DictWith(DictWithout(s5, "format"), "description",
                                  IF Truthy(description)
                                  THEN JStr(JToStr(description) \o " (format: " \o JToStr(fmt) \o ")")
                                  ELSE JStr("Format: " \o JToStr(fmt)))
                    ELSE DictWithout(s5, "format"))
              ELSE s5
    IN  IF "$ref" \in DictKeys(s6)
        THEN [raised |-> Some(UserError), schema |-> s6, warned |-> warned]
        ELSE [raised |-> None, schema |-> convert_prefix_items(s6), warned |-> warned]

\* ------------------------------------------------- the schemas transformed
Schema(items) == JDict(items)

IntegerSchema == Schema({Item("type", JStr("integer"))})

MinimumSchema(v) == Schema({Item("type", JStr("integer")), Item("minimum", v)})

\* what prefixItems and items hold
ItemSchemas ==
    { IntegerSchema, Schema({Item("type", JStr("string"))}),
      MinimumSchema(JInt(0 - 1)), MinimumSchema(JInt(0 - 2)),
      MinimumSchema(JInt(1)), MinimumSchema(JBool(TRUE)),
      Schema({Item("properties", JDict({}))}), Schema({Item("properties", JList(<<>>))}) }

PrefixLists == UNION {[1..k -> ItemSchemas] : k \in 0..MaxPrefix}

\* the keys an array schema has beside prefixItems and items
ArrayExtras ==
    { {Item("type", JStr("array"))},
      {Item("type", JStr("array")), Item("minItems", JInt(0)), Item("maxItems", JInt(5))},
      {Item("type", JStr("array")), Item("title", JStr("a")), Item("additionalProperties", JBool(TRUE))},
      {Item("type", JStr("array")), Item("$ref", JStr("#/$defs/Node"))} }

ArraySchemas ==
    {Schema(extra \cup {Item("prefixItems", JList(prefix))}) :
        extra \in ArrayExtras, prefix \in PrefixLists}
    \cup
    {Schema(extra \cup {Item("prefixItems", JList(prefix)), Item("items", items)}) :
        extra \in ArrayExtras, prefix \in PrefixLists, items \in ItemSchemas}

\* schemas for the rest of transform
OtherSchemas ==
    { Schema({Item("type", JStr("string")), Item("format", JStr("date"))}),
      Schema({Item("type", JStr("string")), Item("format", JStr("date")),
              Item("description", JStr("a"))}),
      Schema({Item("type", JStr("integer")), Item("format", JStr("date"))}),
      Schema({Item("const", JInt(1)), Item("type", JStr("integer"))}),
      Schema({Item("const", JNull)}),
      Schema({Item("enum", JList(<<JInt(0 - 1), JStr("a"), JBool(TRUE), JNull>>))}),
      Schema({Item("enum", JList(<<>>)), Item("type", JStr("integer"))}),
      Schema({Item("oneOf", JList(<<IntegerSchema>>)), Item("discriminator", JStr("a"))}),
      Schema({Item("oneOf", JList(<<IntegerSchema>>)), Item("type", JStr("integer"))}),
      Schema({Item("additionalProperties", JBool(FALSE)), Item("$schema", JStr("a")),
              Item("examples", JList(<<JInt(1)>>)), Item("exclusiveMaximum", JInt(1)),
              Item("exclusiveMinimum", JInt(1))}),
      Schema({Item("additionalProperties", IntegerSchema)}),
      Schema({Item("$ref", JStr("#/$defs/Node")), Item("title", JStr("a"))}) }

TransformInputs == ArraySchemas \cup OtherSchemas

\* ------------------------------------------------------------------- state
VARIABLES
    content,        \* the argument of split_content_into_text_and_thinking
    current_index,  \* the scan position
    parts,          \* the output list
    pc,             \* "scan": at the top of the while loop, "done": returned
    obj,            \* the arguments of format_as_xml
    root_tag,
    indent,
    el,             \* the element to_xml returned, if it did
    result,         \* the string format_as_xml returned, if it did
    raised,         \* the exception format_as_xml raised, if it did
    xpc,            \* "call": format_as_xml is about to be called, then "returned" or "raised"
    api_key,        \* the arguments of GroqProvider.__init__
    groq_client,
    http_client,
    environ,        \* os.environ: GROQ_API_KEY and GROQ_BASE_URL
    http_cache,     \* the providers cached_async_http_client has made a client for
    self_client,    \* self._client, once set
    init_raised,    \* the exception __init__ raised, if it did
    gpc,            \* "call": __init__ is about to run, then "done" or "raised"
    schema_arg,     \* the schema as it was when transform was called
    schema,         \* the schema, which transform changes in place and returns
    warned,         \* whether transform gave its UserWarning
    transform_raised,   \* the exception transform raised, if it did
    tpc             \* "call": transform is about to run, then "returned" or "raised"

scanvars == <<content, current_index, parts, pc>>

xmlvars == <<obj, root_tag, indent, el, result, raised, xpc>>

groqvars ==
    <<api_key, groq_client, http_client, environ, http_cache, self_client, init_raised, gpc>>

googlevars == <<schema_arg, schema, warned, transform_raised, tpc>>

vars == <<scanvars, xmlvars, groqvars, googlevars>>

\* the state of each function while another one is looked at
ScanIdle == content = <<>> /\ current_index = 0 /\ parts = <<>> /\ pc = "idle"

XmlIdle ==
    /\ obj = NoneV /\ root_tag = None /\ indent = None
    /\ el = None /\ result = None /\ raised = None /\ xpc = "idle"

GroqIdle ==
    /\ api_key = None /\ groq_client = None /\ http_client = None
    /\ environ = [GROQ_API_KEY |-> None, GROQ_BASE_URL |-> None]
    /\ http_cache = {} /\ self_client = None /\ init_raised = None /\ gpc = "idle"

GoogleIdle ==
    /\ schema_arg = JDict({}) /\ schema = JDict({}) /\ warned = FALSE
    /\ transform_raised = None /\ tpc = "idle"

\* the locals of one loop iteration
start_index == Find(content, START_THINK_TAG, current_index)

think_start == start_index + Len(START_THINK_TAG)

end_index == Find(content, END_THINK_TAG, think_start)

content_len == Len(content)

\* parts after the `if start_index > current_index` append
PartsWithLeadingText ==
    IF start_index > current_index
    THEN Append(parts, TextPart(Slice(content, current_index, start_index)))
    ELSE parts

Init ==
    /\ content \in ScanInputs
    /\ current_index = 0
    /\ parts = <<>>
    /\ pc = "scan"
    /\ XmlIdle
    /\ GroqIdle
    /\ GoogleIdle

\* no open marker from current_index on: the tail is text, the loop ends
ScanNoStartTag ==
    /\ pc = "scan"
    /\ start_index = -1
    /\ parts' = IF current_index < content_len
                THEN Append(parts, TextPart(SliceFrom(content, current_index)))
                ELSE parts
    /\ pc' = "done"
    /\ UNCHANGED <<content, current_index, xmlvars, groqvars, googlevars>>

\* ScanUnterminatedThink slicing from the open marker instead of from after it
ScanUnterminatedThink_KeepsTag ==
    /\ pc = "scan"
    /\ start_index # -1
    /\ end_index = -1
    /\ parts' = Append(PartsWithLeadingText, TextPart(SliceFrom(content, start_index)))
    /\ pc' = "done"
    /\ UNCHANGED <<content, current_index, xmlvars, groqvars, googlevars>>

\* an open marker with no close marker after it: the loop ends
ScanUnterminatedThink ==
    /\ pc = "scan"
    /\ start_index # -1
    /\ end_index = -1
    /\ parts' = Append(PartsWithLeadingText, TextPart(SliceFrom(content, think_start)))
    /\ pc' = "done"
    /\ UNCHANGED <<content, current_index, xmlvars, groqvars, googlevars>>

\* str.rfind(sub, start): the highest index >= start where sub occurs, else -1
FindLast(s, sub, start) ==
    LET hits == {i \in start..(Len(s) - Len(sub)) : OccursAt(s, sub, i)}
    IN  IF hits = {} THEN -1 ELSE CHOOSE m \in hits : \A n \in hits : n <= m

\* ScanClosedThink resuming by the length of the wrong tag
ScanClosedThink_WrongTagLen ==
    /\ pc = "scan"
    /\ start_index # -1
    /\ end_index # -1
    /\ parts' = Append(PartsWithLeadingText, ThinkingPart(Slice(content, think_start, end_index)))
    /\ current_index' = end_index + Len(START_THINK_TAG)
    /\ UNCHANGED <<content, pc, xmlvars, groqvars, googlevars>>

\* ScanClosedThink closing the region at the last close marker, not the first
ScanClosedThink_Greedy ==
    /\ pc = "scan"
    /\ start_index # -1
    /\ end_index # -1
    /\ LET last == FindLast(content, END_THINK_TAG, think_start)
       IN  /\ parts' = Append(PartsWithLeadingText, ThinkingPart(Slice(content, think_start, last)))
           /\ current_index' = last + Len(END_THINK_TAG)
    /\ UNCHANGED <<content, pc, xmlvars, groqvars, googlevars>>

\* ScanClosedThink resuming at the open marker it has just handled
ScanClosedThink_NoAdvance ==
    /\ pc = "scan"
    /\ start_index # -1
    /\ end_index # -1
    /\ parts' = Append(PartsWithLeadingText, ThinkingPart(Slice(content, think_start, end_index)))
    /\ current_index' = start_index
    /\ UNCHANGED <<content, pc, xmlvars, groqvars, googlevars>>

\* an open marker and the first close marker after it: one more iteration
ScanClosedThink ==
    /\ pc = "scan"
    /\ start_index # -1
    /\ end_index # -1
    /\ parts' = Append(PartsWithLeadingText, ThinkingPart(Slice(content, think_start, end_index)))
    /\ current_index' = end_index + Len(END_THINK_TAG)
    /\ UNCHANGED <<content, pc, xmlvars, groqvars, googlevars>>

Next ==
    \/ ScanNoStartTag
    \/ ScanUnterminatedThink
    \/ ScanClosedThink

Spec == Init /\ [][Next]_vars

\* the loop is the whole body of the function: it keeps running until it breaks
FairSpec == Spec /\ WF_vars(Next)

\* ------------------------------------------------- format_as_xml, called
XmlInit ==
    /\ obj \in XmlInputs
    /\ root_tag = None /\ indent = None
    /\ el = None /\ result = None /\ raised = None /\ xpc = "call"
    /\ ScanIdle
    /\ GroqIdle
    /\ GoogleIdle

\* a call of format_as_xml that returns
FormatAsXmlReturns ==
    /\ xpc = "call"
    /\ \E root_tag_ \in RootTags, indent_ \in Indents :
          LET call == format_as_xml(obj, root_tag_, indent_)
          IN  /\ call.raised = None
              /\ root_tag' = root_tag_
              /\ indent' = indent_
              /\ el' = to_xml(obj, root_tag_).el
              /\ result' = call.out
    /\ raised' = None
    /\ xpc' = "returned"
    /\ UNCHANGED <<obj, scanvars, groqvars, googlevars>>

\* a call of format_as_xml that raises
FormatAsXmlRaises ==
    /\ xpc = "call"
    /\ \E root_tag_ \in RootTags, indent_ \in Indents :
          LET call == format_as_xml(obj, root_tag_, indent_)
          IN  /\ call.raised # None
              /\ root_tag' = root_tag_
              /\ indent' = indent_
              /\ raised' = call.raised
              /\ result' = call.out
    /\ el' = None
    /\ xpc' = "raised"
    /\ UNCHANGED <<obj, scanvars, groqvars, googlevars>>

XmlNext ==
    \/ FormatAsXmlReturns
    \/ FormatAsXmlRaises

SpecXml == XmlInit /\ [][XmlNext]_vars

\* --------------------------------------------- GroqProvider, constructed
GroqInit ==
    /\ api_key \in ApiKeys
    /\ groq_client \in GroqClients
    /\ http_client \in HttpClients
    /\ environ \in Environs
    /\ http_cache = {}
    /\ self_client = None /\ init_raised = None /\ gpc = "call"
    /\ ScanIdle
    /\ XmlIdle
    /\ GoogleIdle

\* GroqProvider(...) returns: self._client is set
GroqProviderConstructed ==
    /\ gpc = "call"
    /\ LET call == GroqProvider_init(api_key, groq_client, http_client, environ, http_cache)
       IN  /\ call.raised = None
           /\ self_client' = call.client
           /\ http_cache' = call.cache
    /\ init_raised' = None
    /\ gpc' = "done"
    /\ UNCHANGED <<api_key, groq_client, http_client, environ, scanvars, xmlvars, googlevars>>

\* GroqProvider(...) raises: there is no provider and no self._client
GroqProviderRaises ==
    /\ gpc = "call"
    /\ LET call == GroqProvider_init(api_key, groq_client, http_client, environ, http_cache)
       IN  /\ call.raised # None
           /\ init_raised' = call.raised
           /\ http_cache' = call.cache
    /\ self_client' = None
    /\ gpc' = "raised"
    /\ UNCHANGED <<api_key, groq_client, http_client, environ, scanvars, xmlvars, googlevars>>

\* the program goes on to construct another provider, in the same process
GroqProviderAgain ==
    /\ gpc \in {"done", "raised"}
    /\ api_key' \in ApiKeys
    /\ groq_client' \in GroqClients
    /\ http_client' \in HttpClients
    /\ self_client' = None /\ init_raised' = None /\ gpc' = "call"
    /\ UNCHANGED <<environ, http_cache, scanvars, xmlvars, googlevars>>

GroqNext ==
    \/ GroqProviderConstructed
    \/ GroqProviderRaises
    \/ GroqProviderAgain

SpecGroq == GroqInit /\ [][GroqNext]_vars

\* ------------------------------ GoogleJsonSchemaTransformer.transform, called
GoogleInit ==
    /\ schema_arg \in TransformInputs
    /\ schema = schema_arg
    /\ warned = FALSE /\ transform_raised = None /\ tpc = "call"
    /\ ScanIdle
    /\ XmlIdle
    /\ GroqIdle

\* transform returns the schema it has rewritten
TransformReturns ==
    /\ tpc = "call"
    /\ LET call == transform(schema)
       IN  /\ call.raised = None
           /\ schema' = call.schema
           /\ warned' = call.warned
    /\ transform_raised' = None
    /\ tpc' = "returned"
    /\ UNCHANGED <<schema_arg, scanvars, xmlvars, groqvars>>

\* transform raises on a $ref, after the changes it made before it got there
TransformRaises ==
    /\ tpc = "call"
    /\ LET call == transform(schema)
       IN  /\ call.raised # None
           /\ schema' = call.schema
           /\ warned' = call.warned
           /\ transform_raised' = call.raised
    /\ tpc' = "raised"
    /\ UNCHANGED <<schema_arg, scanvars, xmlvars, groqvars>>

GoogleNext ==
    \/ TransformReturns
    \/ TransformRaises

SpecGoogle == GoogleInit /\ [][GoogleNext]_vars

\* =================================================== claims on the scanner
XThinkY == <<"x">> \o START_THINK_TAG \o <<"y">>

Nested ==
    <<"x">> \o START_THINK_TAG \o <<"y">> \o START_THINK_TAG \o <<"x">> \o END_THINK_TAG \o <<"y">>

LastPart(ps) == ps[Len(ps)]

\* the scan, at current_index, finds its next open marker at i
NextOpenAt(i) ==
    /\ i >= current_index
    /\ OccursAt(content, START_THINK_TAG, i)
    /\ \A h \in current_index..(i - 1) : ~OccursAt(content, START_THINK_TAG, h)

\* no close marker anywhere after the open marker at i
NoCloseAfter(i) ==
    \A j \in (i + Len(START_THINK_TAG))..Len(content) : ~OccursAt(content, END_THINK_TAG, j)

\* j is the first close marker after the open marker at i
FirstCloseAfter(i, j) ==
    /\ j >= i + Len(START_THINK_TAG)
    /\ OccursAt(content, END_THINK_TAG, j)
    /\ \A h \in (i + Len(START_THINK_TAG))..(j - 1) : ~OccursAt(content, END_THINK_TAG, h)

\* C1 as claimed: when the open marker the scan finds has no close marker after
\* it, the rest of the input after that marker is emitted as a ThinkingPart and
\* the scan stops; "x<think>y" gives [TextPart("x"), ThinkingPart("y")].
C1_UnterminatedIsThinking ==
    [][ /\ \A i \in 0..Len(content) :
              (pc = "scan" /\ NextOpenAt(i) /\ NoCloseAfter(i))
                  => /\ pc' = "done"
                     /\ LastPart(parts') = ThinkingPart(SliceFrom(content, i + Len(START_THINK_TAG)))
        /\ (content = XThinkY /\ pc' = "done")
              => parts' = <<TextPart(<<"x">>), ThinkingPart(<<"y">>)>>
      ]_vars

\* C1 amended: when the open marker the scan finds has no close marker after
\* it, the rest of the input after that marker is emitted as a TextPart (after
\* the TextPart of any text before the marker) and the scan stops;
\* "x<think>y" gives [TextPart("x"), TextPart("y")].
C1_UnterminatedIsText ==
    [][ /\ \A i \in 0..Len(content) :
              (pc = "scan" /\ NextOpenAt(i) /\ NoCloseAfter(i))
                  => /\ pc' = "done"
                     /\ current_index' = current_index
                     /\ LastPart(parts') = TextPart(SliceFrom(content, i + Len(START_THINK_TAG)))
                     /\ Len(parts') = Len(parts) + (IF i > current_index THEN 2 ELSE 1)
        /\ (content = XThinkY /\ pc' = "done")
              => parts' = <<TextPart(<<"x">>), TextPart(<<"y">>)>>
      ]_vars

C1_Witness ==
    /\ pc = "done"
    /\ content = XThinkY
    /\ parts = <<TextPart(<<"x">>), TextPart(<<"y">>)>>

\* the annotation regions of s from index `from` on: an open marker and the
\* first close marker after it
RECURSIVE AnnotationRegions(_, _)
AnnotationRegions(s, from) ==
    LET o == Find(s, START_THINK_TAG, from)
        c == Find(s, END_THINK_TAG, o + Len(START_THINK_TAG))
    IN  IF o = -1 \/ c = -1 THEN 0
        ELSE 1 + AnnotationRegions(s, c + Len(END_THINK_TAG))

NoEmptyTextPart == \A k \in 1..Len(parts) : parts[k].part_kind = "text" => parts[k].content # <<>>

ThinkingPartPerRegion ==
    Cardinality({k \in 1..Len(parts) : parts[k].part_kind = "thinking"})
        = AnnotationRegions(content, 0)

\* C2 as claimed: no TextPart of the output has empty content (also when the
\* input ends with an open marker), and every annotation region of the input
\* gives one ThinkingPart, empty or not.
C2_NoEmptyText ==
    pc = "done" => (NoEmptyTextPart /\ ThinkingPartPerRegion)

RECURSIVE ConcatContents(_)
ConcatContents(ps) ==
    IF ps = <<>> THEN <<>> ELSE Head(ps).content \o ConcatContents(Tail(ps))

\* s with every occurrence of either marker taken out, left to right
RECURSIVE StripMarkers(_)
StripMarkers(s) ==
    IF s = <<>> THEN <<>>
    ELSE IF OccursAt(s, START_THINK_TAG, 0) THEN StripMarkers(SliceFrom(s, Len(START_THINK_TAG)))
    ELSE IF OccursAt(s, END_THINK_TAG, 0) THEN StripMarkers(SliceFrom(s, Len(END_THINK_TAG)))
    ELSE <<Head(s)>> \o StripMarkers(Tail(s))

HasMarker(s) ==
    \E i \in 0..Len(s) : OccursAt(s, START_THINK_TAG, i) \/ OccursAt(s, END_THINK_TAG, i)

\* C3 as claimed: the contents of the parts, concatenated, are the input without
\* its markers, and no part's content holds a marker.
C3_AllMarkersDropped ==
    pc = "done" =>
        /\ ConcatContents(parts) = StripMarkers(content)
        /\ \A k \in 1..Len(parts) : ~HasMarker(parts[k].content)

\* the parts written back as a string: a ThinkingPart between its two markers
RECURSIVE Rebuild(_)
Rebuild(ps) ==
    IF ps = <<>> THEN <<>>
    ELSE (IF Head(ps).part_kind = "thinking"
          THEN START_THINK_TAG \o Head(ps).content \o END_THINK_TAG
          ELSE Head(ps).content) \o Rebuild(Tail(ps))

\* C3 amended: the input is the parts in order with only the markers the scan
\* consumed put back: both markers around every ThinkingPart and, when the last
\* open marker was never closed, that open marker before the final TextPart.
\* Every other character is in exactly one part, in order; other marker
\* occurrences stay in the contents as text.
C3_OnlyScannedMarkersDropped ==
    pc = "done" =>
        \/ Rebuild(parts) = content
        \/ /\ parts # <<>>
           /\ LastPart(parts).part_kind = "text"
           /\ Rebuild(SubSeq(parts, 1, Len(parts) - 1)) \o START_THINK_TAG
                  \o LastPart(parts).content = content

C3_Witness ==
    /\ pc = "done"
    /\ content = Nested
    /\ parts = << TextPart(<<"x">>),
                  ThinkingPart(<<"y">> \o START_THINK_TAG \o <<"x">>),
                  TextPart(<<"y">>) >>

OptionalText(s) == IF s = <<>> THEN <<>> ELSE <<TextPart(s)>>

\* C4: when the open marker the scan finds is followed by a close marker, the
\* ThinkingPart holds exactly what lies between that open marker and the first
\* close marker after it, and the scan resumes right after that close marker;
\* so A <think> B </think> C with marker-free A, B, C gives
\* [TextPart(A) unless empty, ThinkingPart(B), TextPart(C) unless empty].
C4_ClosedRegion ==
    /\ [][ \A i \in 0..Len(content) : \A j \in 0..Len(content) :
              (pc = "scan" /\ NextOpenAt(i) /\ FirstCloseAfter(i, j))
                  => /\ LastPart(parts') = ThinkingPart(Slice(content, i + Len(START_THINK_TAG), j))
                     /\ current_index' = j + Len(END_THINK_TAG)
                     /\ pc' = "scan"
         ]_vars
    /\ [](pc = "done" =>
            \A i \in 0..Len(content) : \A j \in 0..Len(content) :
                LET A == Slice(content, 0, i)
                    B == Slice(content, i + Len(START_THINK_TAG), j)
                    C == SliceFrom(content, j + Len(END_THINK_TAG))
                IN  ( /\ OccursAt(content, START_THINK_TAG, i)
                      /\ j >= i + Len(START_THINK_TAG)
                      /\ OccursAt(content, END_THINK_TAG, j)
                      /\ ~HasMarker(A) /\ ~HasMarker(B) /\ ~HasMarker(C) )
                    => parts = OptionalText(A) \o <<ThinkingPart(B)>> \o OptionalText(C))

C4_Witness ==
    /\ pc = "done"
    /\ content = <<"<">> \o START_THINK_TAG \o <<"y">> \o END_THINK_TAG \o <<"/">>
    /\ parts = <<TextPart(<<"<">>), ThinkingPart(<<"y">>), TextPart(<<"/">>)>>

\* C10: the scan position never passes the end of the input, it grows on every
\* iteration that stays in the loop, and the loop ends.
C10_ScanTerminates ==
    /\ [](current_index >= 0 /\ current_index <= Len(content))
    /\ [][pc' = "scan" => current_index' > current_index]_vars
    /\ <>(pc = "done")

C10_Witness ==
    /\ pc = "done"
    /\ current_index = Len(content)
    /\ Len(parts) >= 2

\* ================================================ claims on the serializer
\* the category of a value: the first it belongs to, in the documented order
Category(v) ==
    IF "NoneType" \in v.types THEN "null"
    ELSE IF "str" \in v.types THEN "string"
    ELSE IF "bytes" \in v.types THEN "bytes"
    ELSE IF "number" \in v.types THEN "number"
    ELSE IF "date" \in v.types THEN "date"
    ELSE IF ("dataclass" \in v.types /\ "type" \notin v.types) \/ "BaseModel" \in v.types
        THEN "record"
    ELSE IF "Mapping" \in v.types THEN "mapping"
    ELSE IF "Iterable" \in v.types THEN "collection"
    ELSE "unsupported"

ScalarCategories == {"null", "string", "bytes", "number", "date"}

KeyIsStrOrInt(key) == key.kt \in {"str", "int"}

\* the tag a str or int key gives; the decimal strings of the ints of the model
KeyTag(key) ==
    IF key.kt = "str" THEN key.s
    ELSE CASE key.n = 1 -> "1" [] key.n = 0 - 12 -> "-12" [] OTHER -> IntToStr(key.n)

ChildTags(e) == [k \in 1..Len(e.children) |-> e.children[k].tag]

FieldTags(es) == [k \in 1..Len(es) |-> es[k].key.s]

\* the members a value has under its category
Width(v) ==
    CASE Category(v) = "record" -> Len(v.fields)
      [] Category(v) = "mapping" -> Len(v.entries)
      [] Category(v) = "collection" -> Len(v.items)
      [] OTHER -> 0

\* C5: the element to_xml gives is the one of the first category the value
\* belongs to, in the order null, string, bytes, number, date, record, mapping,
\* collection, error; a record that is also a mapping or iterable comes out as a
\* record: tagged with its class name when no tag is given, one child per field.
C5_FirstCategoryWins ==
    /\ (xpc \in {"returned", "raised"} /\ Category(obj) = "unsupported")
           => (xpc = "raised" /\ raised = Some(UnsupportedType))
    /\ xpc = "returned" =>
        LET e == el[1]
            cat == Category(obj)
            given == IF root_tag = None THEN item_tag ELSE root_tag[1]
        IN  /\ cat \in ScalarCategories =>
                  /\ e.tag = given
                  /\ e.children = <<>>
                  /\ e.text = Some(CASE cat = "null" -> none_str
                                     [] cat = "string" -> obj.str
                                     [] cat = "bytes" -> Decode(obj.bytes)
                                     [] cat = "number" -> NumToStr(obj)
                                     [] cat = "date" -> IsoFormat(obj.ymd))
            /\ cat = "record" =>
                  /\ e.tag = (IF root_tag = None THEN obj.cls ELSE root_tag[1])
                  /\ e.text = None
                  /\ ChildTags(e) = FieldTags(obj.fields)
            /\ cat = "mapping" =>
                  /\ e.tag = given
                  /\ e.text = None
                  /\ Len(e.children) = Len(obj.entries)
            /\ cat = "collection" =>
                  /\ e.tag = given
                  /\ e.text = None
                  /\ Len(e.children) = Len(obj.items)
                  /\ \A k \in 1..Len(obj.items) :
                        e.children[k].tag = (IF Category(obj.items[k]) = "record"
                                             THEN obj.items[k].cls ELSE item_tag)

C5_Witness ==
    /\ xpc = "returned"
    /\ obj = MappingDataclassV("Row", <<Entry(StrKey("name"), StrV("John")),
                                        Entry(StrKey("height"), IntV(6))>>)
    /\ root_tag = None
    /\ el[1].tag = "Row"
    /\ ChildTags(el[1]) = <<"name", "height">>

LeafWithText(e) == e.text # None /\ e.children = <<>>

RECURSIVE LeavesAndFullContainers(_)
\* e and every element below it is a leaf with a text or a container with children
LeavesAndFullContainers(e) ==
    /\ LeafWithText(e) \/ (e.text = None /\ e.children # <<>>)
    /\ \A k \in 1..Len(e.children) : LeavesAndFullContainers(e.children[k])

RECURSIVE LeavesAndContainers(_)
\* e and every element below it is a leaf with a text or an element without text
LeavesAndContainers(e) ==
    /\ LeafWithText(e) \/ e.text = None
    /\ \A k \in 1..Len(e.children) : LeavesAndContainers(e.children[k])

\* C6 as claimed: every element of the tree to_xml returns is a leaf with a
\* text and no children, or a container with at least one child and no text.
C6_ContainersHaveChildren ==
    xpc = "returned" => LeavesAndFullContainers(el[1])

\* C6 amended: every element of the tree to_xml returns is a leaf with a text
\* and no children, or a container with no text; the element of a scalar is a
\* leaf, the element of a record, mapping or collection is a container with one
\* child per field, entry or item, so with none when it is empty.
C6_LeafOrContainer ==
    xpc = "returned" =>
        /\ LeavesAndContainers(el[1])
        /\ Category(obj) \in ScalarCategories => LeafWithText(el[1])
        /\ Category(obj) \notin ScalarCategories =>
              (el[1].text = None /\ Len(el[1].children) = Width(obj))

C6_Witness ==
    /\ xpc = "returned"
    /\ obj = ListV(<<IntV(6), DictV(<<>>)>>)
    /\ Len(el[1].children) = 2
    /\ LeafWithText(el[1].children[1])
    /\ el[1].children[2].text = None /\ el[1].children[2].children = <<>>

RECURSIVE EachChildText(_, _)
\* the children, each one indented (if asked) and serialized by itself
EachChildText(children, space) ==
    IF children = <<>> THEN <<>>
    ELSE << ElementTree_tostring(IF space = None THEN Head(children)
                                 ELSE ElementTree_indent(Head(children), space[1])) >>
             \o EachChildText(Tail(children), space)

WholeTreeText(e, space) ==
    ElementTree_tostring(IF space = None THEN e ELSE ElementTree_indent(e, space[1]))

\* C7: format_as_xml returns the root's children, each serialized by itself and
\* joined by a newline (by nothing without indent), exactly when root_tag is
\* None and the root has no text; otherwise it returns the whole tree, root
\* included, as one string.
C7_RootlessExactlyWhen ==
    xpc = "returned" =>
        /\ (root_tag = None /\ el[1].text = None) =>
              result = Some(Join(IF indent = None THEN "" ELSE "\n",
                                 EachChildText(el[1].children, indent)))
        /\ (root_tag # None \/ el[1].text # None) =>
              result = Some(WholeTreeText(el[1], indent))

C7_Witness ==
    /\ xpc = "returned"
    /\ obj = ListV(<<ListV(<<Point>>), IntV(6)>>)
    /\ root_tag = None
    /\ indent = Some("  ")
    /\ result = Some("<item>\n  <Point>\n    <x>6</x>\n  </Point>\n</item>\n<item>6</item>")

RECURSIVE HasOffender(_), AnyOffender(_, _)
\* somewhere in v there is a key that is neither a str nor an int, or a value
\* of no category
HasOffender(v) ==
    CASE Category(v) \in ScalarCategories -> FALSE
      [] Category(v) = "record" -> AnyOffender(v.fields, TRUE)
      [] Category(v) = "mapping" -> AnyOffender(v.entries, TRUE)
      [] Category(v) = "collection" -> AnyOffender(v.items, FALSE)
      [] OTHER -> TRUE

AnyOffender(members, keyed) ==
    \E k \in 1..Len(members) :
        IF keyed
        THEN members[k].key.kt \notin {"str", "int", "bool"} \/ HasOffender(members[k].value)
        ELSE HasOffender(members[k])

\* C8: when the value holds, at any depth, a key that is neither a str nor an
\* int or a value of no category, format_as_xml raises the unsupported-type
\* error and returns nothing, whatever was serialized before the offender.
C8_ErrorAbortsAll ==
    (xpc \in {"returned", "raised"} /\ HasOffender(obj)) =>
        /\ xpc = "raised"
        /\ raised \in {Some(UnsupportedType), Some(UnsupportedKeyType)}
        /\ result = None
        /\ el = None

C8_Witness ==
    /\ xpc = "raised"
    /\ obj = DictV(<< Entry(StrKey("name"), StrV("John")),
                      Entry(StrKey("height"),
                            ListV(<<IntV(6), DictV(<<Entry(FloatKey(15), IntV(6))>>)>>)) >>)
    /\ raised = Some(UnsupportedKeyType)
    /\ result = None

JohnSix == DictV(<<Entry(StrKey("name"), StrV("John")), Entry(StrKey("height"), IntV(6))>>)

SuppliedKey ==
    IF api_key # None /\ api_key[1] # "" THEN api_key
    ELSE IF environ.GROQ_API_KEY # None /\ environ.GROQ_API_KEY[1] # "" THEN environ.GROQ_API_KEY
    ELSE None

\* C11: GroqProvider(...) ends in one of these ways. With groq_client: an
\* AssertionError when api_key or http_client is given too, else the provider's
\* client is groq_client itself. Without groq_client: a UserError and no client
\* when neither api_key nor GROQ_API_KEY gives a non-empty key, else a new client
\* with that key and with http_client, or the shared cached client of 'groq'
\* when no http_client is given. The two errors are of different kinds.
C11_InitOutcomes ==
    /\ UserError # AssertionError
    /\ gpc \in {"done", "raised"} =>
        /\ (groq_client # None /\ (api_key # None \/ http_client # None)) =>
              (gpc = "raised" /\ init_raised = Some(AssertionError) /\ self_client = None)
        /\ (groq_client # None /\ api_key = None /\ http_client = None) =>
              (gpc = "done" /\ init_raised = None /\ self_client = groq_client)
        /\ (groq_client = None /\ SuppliedKey = None) =>
              (gpc = "raised" /\ init_raised = Some(UserError) /\ self_client = None)
        /\ (groq_client = None /\ SuppliedKey # None) =>
              /\ gpc = "done"
              /\ init_raised = None
              /\ self_client # None
              /\ self_client # groq_client
              /\ self_client[1].made_by = "GroqProvider"
              /\ self_client[1].api_key = SuppliedKey[1]
              /\ self_client[1].http_client =
                    (IF http_client # None THEN http_client[1] ELSE "shared-http-client-groq")
              /\ http_client = None => "groq" \in http_cache

C11_Witness ==
    /\ gpc = "done"
    /\ groq_client = None
    /\ api_key = Some("")
    /\ http_client = None
    /\ environ.GROQ_API_KEY = Some("env-key")
    /\ self_client = Some(AsyncGroq("https://api.groq.com", "env-key", "shared-http-client-groq"))

\* ================================== claims on the Google schema transformer
RECURSIVE DedupByEquality(_, _)
\* each of `items` that is not equal to one of `kept` or to an earlier one, in order
DedupByEquality(items, kept) ==
    IF items = <<>> THEN kept
    ELSE IF \E k \in 1..Len(kept) : PyEq(kept[k], Head(items))
         THEN DedupByEquality(Tail(items), kept)
         ELSE DedupByEquality(Tail(items), Append(kept, Head(items)))

\* the prefixItems of the schema transform was called with
PrefixItemsArg == DictGet(schema_arg, "prefixItems").l

\* the existing `items` schema, if any, followed by the prefix items
CandidatesArg ==
    (IF "items" \in DictKeys(schema_arg) THEN <<DictGet(schema_arg, "items")>> ELSE <<>>)
        \o PrefixItemsArg

\* C12: when transform returns for a schema with prefixItems, the candidates it
\* kept are the existing `items` followed by each prefix item that is not equal
\* to an earlier candidate, in first-occurrence order (no two unequal schemas
\* merged, no two equal ones both kept); `items` is the single candidate or
\* {'anyOf': candidates}; prefixItems is gone; minItems defaults to the number
\* of prefix items, and maxItems defaults to it only when there was no `items`.
C12_HashDedupIsEqualityDedup ==
    (tpc = "returned" /\ "prefixItems" \in DictKeys(schema_arg)) =>
        LET candidates == DedupByEquality(CandidatesArg, <<>>)
            count == JInt(Len(PrefixItemsArg))
        IN  /\ "prefixItems" \notin DictKeys(schema)
            /\ Len(candidates) = 1 => DictGetOrNone(schema, "items") = candidates[1]
            /\ Len(candidates) > 1 =>
                  DictGetOrNone(schema, "items") = JDict({Item("anyOf", JList(candidates))})
            /\ DictGetOrNone(schema, "minItems") =
                  (IF "minItems" \in DictKeys(schema_arg)
                   THEN DictGet(schema_arg, "minItems") ELSE count)
            /\ DictGetOrNone(schema, "maxItems") =
                  (IF "maxItems" \in DictKeys(schema_arg) THEN DictGet(schema_arg, "maxItems")
                   ELSE IF "items" \in DictKeys(schema_arg) THEN JNull ELSE count)

====
